---------------------------- MODULE Spec2Model ----------------------------
(***************************************************************************)
(* Model of cplane_np.py: the escape-time evaluators julia / juliaNV and   *)
(* the planes JuliaPlane / JuliaPlaneNV built on ComplexPlaneNP.           *)
(*                                                                         *)
(* Numbers.  A complex number is a pair <<re, im>> of integers (a Gaussian *)
(* integer), so z**2 + c and abs(z) <= 2 are computed exactly.  The inputs *)
(* are drawn from integer lattices on which Python's true division         *)
(* (xmax - xmin)/(xlen - 1) is exact; TrueDiv is undefined (TLC stops)     *)
(* anywhere else, so no inexact quotient is ever silently rounded.         *)
(* A value that is not a number (the str "one" of test_zoom2, an           *)
(* unparsable field of a file) is the distinguished value NotANumber.      *)
(***************************************************************************)
EXTENDS Integers, Sequences, FiniteSets

VARIABLES
    evs,    \* the evaluators bound to f1 and f2: each closure's captured c, max
    made,   \* history: the arguments of the julia()/juliaNV() call behind each
    call,   \* the latest evaluator call: which evaluator, z, and what it returned
    tp,     \* the plane object (its attributes), or no object yet
    file,   \* the file last written (by toCSV/toJSON, or from outside)
    last    \* the latest plane operation and how it ended

vars == <<evs, made, call, tp, file, last>>

-----------------------------------------------------------------------------
(* Bounds of the model *)

MaxCap == 2
ZRange == 2

\* the z values handed to an evaluator: all Gaussian integers of the square
Zs == (-ZRange..ZRange) \X (-ZRange..ZRange)
\* the constants c handed to julia()/juliaNV()
Cs == {<<1, 0>>, <<-2, 0>>, <<-1, 1>>}
\* the iteration caps handed to julia()/juliaNV()
Caps == 1..MaxCap

-----------------------------------------------------------------------------
(* Complex arithmetic on pairs *)

Re(z) == z[1]
Im(z) == z[2]

\* z**2 + c
SqrPlus(z, c) == <<Re(z) * Re(z) - Im(z) * Im(z) + Re(c), 2 * Re(z) * Im(z) + Im(c)>>

\* abs(z) <= 2, exactly: |z|^2 <= 4
AbsLe2(z) == Re(z) * Re(z) + Im(z) * Im(z) <= 4

-----------------------------------------------------------------------------
(* The evaluator f returned by julia(c, max).  The state of its loop is z  *)
(* and n, with (history) apps, the number of times line 311 has run, and   *)
(* done, set once the while loop has been left.                            *)

\* (mutant) the cap test one pass late: n > max
julia_pass_late(s, c, max) ==
    IF s.done \/ ~AbsLe2(s.z) THEN [s EXCEPT !.done = TRUE]
    ELSE LET z1 == SqrPlus(s.z, c) IN
         IF s.n > max
         THEN [z |-> z1, n |-> 1, apps |-> s.apps + 1, done |-> TRUE]
         ELSE [z |-> z1, n |-> s.n + 1, apps |-> s.apps + 1, done |-> FALSE]

\* one pass of the while loop, lines 309-317
julia_pass(s, c, max) ==
    IF s.done \/ ~AbsLe2(s.z) THEN [s EXCEPT !.done = TRUE]
    ELSE LET z1 == SqrPlus(s.z, c) IN
         IF s.n >= max
         THEN [z |-> z1, n |-> 1, apps |-> s.apps + 1, done |-> TRUE]
         ELSE [z |-> z1, n |-> s.n + 1, apps |-> s.apps + 1, done |-> FALSE]

\* 2^k passes, a pass after the loop was left doing nothing.  n grows by
\* one in every pass that stays in the loop, so the loop is left within
\* max + 1 passes; halving keeps the evaluation shallow.
RECURSIVE julia_passes(_, _, _, _)
julia_passes(s, c, max, k) ==
    IF s.done THEN s
    ELSE IF k = 0 THEN julia_pass(s, c, max)
    ELSE julia_passes(julia_passes(s, c, max, k - 1), c, max, k - 1)

\* the least k with 2^k > max
RECURSIVE Halvings(_)
Halvings(max) == IF max <= 0 THEN 0 ELSE 1 + Halvings(max \div 2)

\* the whole while loop, from n = 0
julia_while(z, c, max) ==
    julia_passes([z |-> z, n |-> 0, apps |-> 0, done |-> FALSE], c, max, Halvings(max))

\* (mutant) no test of the input's magnitude before the loop
julia_f_unguarded(z, c, max) ==
    LET r == julia_while(z, c, max) IN [n |-> r.n - 1, z |-> r.z, apps |-> r.apps]

\* (mutant) the final n -= 1 left out
julia_f_uncorrected(z, c, max) ==
    IF AbsLe2(z)
    THEN LET r == julia_while(z, c, max) IN [n |-> r.n, z |-> r.z, apps |-> r.apps]
    ELSE [n |-> 1, z |-> z, apps |-> 0]

julia_f(z, c, max) ==
    IF AbsLe2(z)
    THEN LET r == julia_while(z, c, max) IN [n |-> r.n - 1, z |-> r.z, apps |-> r.apps]
    ELSE [n |-> 1, z |-> z, apps |-> 0]

(* The evaluator f returned by juliaNV(c, max): the same code, not JIT'ed. *)

juliaNV_pass(s, c, max) ==
    IF s.done \/ ~AbsLe2(s.z) THEN [s EXCEPT !.done = TRUE]
    ELSE LET z1 == SqrPlus(s.z, c) IN
         IF s.n >= max
         THEN [z |-> z1, n |-> 1, apps |-> s.apps + 1, done |-> TRUE]
         ELSE [z |-> z1, n |-> s.n + 1, apps |-> s.apps + 1, done |-> FALSE]

RECURSIVE juliaNV_passes(_, _, _, _)
juliaNV_passes(s, c, max, k) ==
    IF s.done THEN s
    ELSE IF k = 0 THEN juliaNV_pass(s, c, max)
    ELSE juliaNV_passes(juliaNV_passes(s, c, max, k - 1), c, max, k - 1)

juliaNV_while(z, c, max) ==
    juliaNV_passes([z |-> z, n |-> 0, apps |-> 0, done |-> FALSE], c, max, Halvings(max))

juliaNV_f(z, c, max) ==
    IF AbsLe2(z)
    THEN LET r == juliaNV_while(z, c, max) IN [n |-> r.n - 1, z |-> r.z, apps |-> r.apps]
    ELSE [n |-> 1, z |-> z, apps |-> 0]

-----------------------------------------------------------------------------
(* Creating and calling evaluators, as test_julia_4 and test_julia_5 do:  *)
(* f1 = jp.julia(...), f2 = jp.julia(...), f1(z), f2(z)                    *)

Names == {"f1", "f2"}
Unbound == [c |-> <<0, 0>>, max |-> 0, nv |-> FALSE, bound |-> FALSE]
NoCall == [ev |-> "none", z |-> <<0, 0>>, n |-> 0, apps |-> 0, last |-> <<0, 0>>]

\* a closure: the cells c and max captured by f, and which def made it
Closure(c, max, nv) == [c |-> c, max |-> max, nv |-> nv, bound |-> TRUE]

\* calling a closure on z
Apply(fn, z) ==
    IF fn.nv THEN juliaNV_f(z, fn.c, fn.max) ELSE julia_f(z, fn.c, fn.max)

\* (mutant) c kept in one place shared by every evaluator
julia_shared(name, c, max) ==
    /\ ~evs[name].bound
    /\ evs' = [e \in Names |->
                 IF e = name THEN Closure(c, max, FALSE)
                 ELSE IF evs[e].bound THEN [evs[e] EXCEPT !.c = c] ELSE evs[e]]
    /\ made' = [made EXCEPT ![name] = Closure(c, max, FALSE)]
    /\ UNCHANGED <<call, tp, file, last>>

\* name = julia(c, max): a new closure over this call's own c and max
julia(name, c, max) ==
    /\ ~evs[name].bound
    /\ evs' = [evs EXCEPT ![name] = Closure(c, max, FALSE)]
    /\ made' = [made EXCEPT ![name] = Closure(c, max, FALSE)]
    /\ UNCHANGED <<call, tp, file, last>>

\* name = juliaNV(c, max)
juliaNV(name, c, max) ==
    /\ ~evs[name].bound
    /\ evs' = [evs EXCEPT ![name] = Closure(c, max, TRUE)]
    /\ made' = [made EXCEPT ![name] = Closure(c, max, TRUE)]
    /\ UNCHANGED <<call, tp, file, last>>

\* name(z): the evaluator bound to name is called on z
Call(name, z) ==
    /\ evs[name].bound
    /\ LET r == Apply(evs[name], z) IN
         call' = [ev |-> name, z |-> z, n |-> r.n, apps |-> r.apps, last |-> r.z]
    /\ UNCHANGED <<evs, made, tp, file, last>>

-----------------------------------------------------------------------------
(* Values of the plane model *)

\* a value that is not a number: the str "one" of test_zoom2
NotANumber == -99
IsNum(x) == x # NotANumber

\* the default cap of set_f, julia and juliaNV
DefaultMax == 100

\* Python's true division a / b where the quotient is on the lattice
TrueDiv(a, b) ==
    LET m == IF a < 0 THEN -a ELSE a IN CHOOSE q \in -m..m : q * b = a

\* the outcome of a handler, or of a part of one: the object as it now is,
\* and "ok" or the exception that ended it
Ok(self) == [tp |-> self, err |-> "ok"]
Raise(self, e) == [tp |-> self, err |-> e]

\* no object bound to tp yet
NoPlane == [data |-> <<>>, index |-> <<>>, columns |-> <<>>, dtype |-> "none"]
NoObject ==
    [kind |-> "none", xmin |-> 0, xmax |-> 0, ymin |-> 0, ymax |-> 0,
     xlen |-> 0, ylen |-> 0, xstep |-> 0, ystep |-> 0, c |-> <<0, 0>>,
     f |-> Unbound, max |-> 0, plane |-> NoPlane]

\* pd.DataFrame(planeArray, index=ylabels, columns=xlabels); a label is
\* str(value), kept here as the value it prints
DataFrame(planeArray, ylabels, xlabels, dtype) ==
    [data |-> planeArray, index |-> ylabels, columns |-> xlabels, dtype |-> dtype]

\* (hi - lo)/(len - 1) as __init__, zoom, fromCSV and fromJSON compute it
StepOf(lo, hi, len) ==
    IF ~IsNum(hi) \/ ~IsNum(lo) THEN [err |-> "TypeError", v |-> 0]
    ELSE IF len - 1 = 0 THEN [err |-> "ZeroDivisionError", v |-> 0]
    ELSE [err |-> "ok", v |-> TrueDiv(hi - lo, len - 1)]

\* self.xstep = ...; self.ystep = ...  (the second is not reached if the first raises)
SetSteps(self) ==
    LET xs == StepOf(self.xmin, self.xmax, self.xlen) IN
    IF xs.err # "ok" THEN Raise(self, xs.err)
    ELSE LET s1 == [self EXCEPT !.xstep = xs.v]
             ys == StepOf(s1.ymin, s1.ymax, s1.ylen) IN
         IF ys.err # "ok" THEN Raise(s1, ys.err)
         ELSE Ok([s1 EXCEPT !.ystep = ys.v])

\* np.linspace(start, stop, num)
linspace(start, stop, num) ==
    IF ~IsNum(start) \/ ~IsNum(stop) THEN [err |-> "TypeError", v |-> <<>>]
    ELSE IF num < 0 THEN [err |-> "ValueError", v |-> <<>>]
    ELSE [err |-> "ok",
          v |-> [j \in 1..num |->
                    IF num = 1 THEN start
                    ELSE start + (j - 1) * TrueDiv(stop - start, num - 1)]]

\* the label lists of both refresh methods
ylabels(self) == [i \in 1..self.ylen |-> self.ymax - (i - 1) * self.ystep]
xlabels(self) == [j \in 1..self.xlen |-> (j - 1) * self.xstep + self.xmin]

(* ComplexPlaneNP.refresh, which JuliaPlane inherits: the plane is built   *)
(* from planeArray = x + y*1j; the value of self.f(planeArray) is          *)
(* computed and dropped.                                                   *)
refresh_NP(self) ==
    LET rx == linspace(self.xmin, self.xmax, self.xlen)
        ry == linspace(self.ymin, self.ymax, self.ylen)
    IN  IF rx.err # "ok" THEN Raise(self, rx.err)
        ELSE IF ry.err # "ok" THEN Raise(self, ry.err)
        ELSE LET planeArray ==
                     [i \in 1..self.ylen |-> [j \in 1..self.xlen |-> <<rx.v[j], ry.v[i]>>]]
             IN  Ok([self EXCEPT !.plane =
                        DataFrame(planeArray, ylabels(self), xlabels(self), "complex128")])

(* JuliaPlaneNV.refresh: planeArray = np.zeros([xlen, ylen]), then the     *)
(* sweep writes planeArray[ylen-ypos-1, xpos] = self.f(coordinate).        *)
NVCoord(self, xpos, ypos) ==
    <<xpos * self.xstep + self.xmin, ypos * self.ystep + self.ymin>>

\* the sweep of lines 266-269 assigns to row r, column k (from 1) of planeArray
SweepWrites(self, r, k) ==
    \E xpos \in 0..(self.xlen - 1), ypos \in 0..(self.ylen - 1) :
        self.ylen - ypos - 1 = r - 1 /\ xpos = k - 1

refresh_NV(self) ==
    LET xs == 0..(self.xlen - 1)
        ys == 0..(self.ylen - 1)
        sweeps == xs # {} /\ ys # {}
        \* the cell written at sweep position (xpos, ypos), 0-based [row, col]
        outside == \E xpos \in xs, ypos \in ys :
                      self.ylen - ypos - 1 >= self.xlen \/ xpos >= self.ylen
        planeArray ==
            [r \in 1..self.xlen |-> [k \in 1..self.ylen |->
                IF SweepWrites(self, r, k)
                THEN <<Apply(self.f, NVCoord(self, k - 1, self.ylen - r)).n, 0>>
                ELSE <<0, 0>>]]
    IN  IF self.xlen < 0 \/ self.ylen < 0 THEN Raise(self, "ValueError")
        ELSE IF sweeps /\ (~IsNum(self.xmin) \/ ~IsNum(self.ymin)) THEN Raise(self, "TypeError")
        ELSE IF outside THEN Raise(self, "IndexError")
        ELSE IF ys # {} /\ ~IsNum(self.ymax) THEN Raise(self, "TypeError")
        ELSE IF self.xlen # self.ylen THEN Raise(self, "ValueError")
        ELSE Ok([self EXCEPT !.plane =
                    DataFrame(planeArray, ylabels(self), xlabels(self), "float64")])

\* self.refresh(): the method of the object's class
refresh(self) ==
    IF self.kind = "JuliaPlaneNV" THEN refresh_NV(self) ELSE refresh_NP(self)

\* ComplexPlaneNP.__init__(self, newXmin, newXmax, newXlen, newYmin, newYmax, newYlen, f, maxLoop)
ComplexPlaneNP_init(self, newXmin, newXmax, newXlen, newYmin, newYmax, newYlen, f, maxLoop) ==
    LET s1 == [self EXCEPT !.xmin = newXmin, !.xmax = newXmax, !.ymin = newYmin,
                           !.ymax = newYmax, !.xlen = newXlen, !.ylen = newYlen]
        s2 == SetSteps(s1)
    IN  IF s2.err # "ok" THEN s2
        ELSE refresh([s2.tp EXCEPT !.f = f, !.max = maxLoop])

\* JuliaPlane.__init__(self, newXmin, newXmax, newXlen, newYmin, newYmax, newYlen, c, maxLoop)
JuliaPlane_init(newXmin, newXmax, newXlen, newYmin, newYmax, newYlen, c, maxLoop) ==
    ComplexPlaneNP_init([NoObject EXCEPT !.kind = "JuliaPlane", !.c = c],
                        newXmin, newXmax, newXlen, newYmin, newYmax, newYlen,
                        Closure(c, maxLoop, FALSE), maxLoop)

\* JuliaPlaneNV.__init__(self, newXmin, newXmax, newXlen, newYmin, newYmax, newYlen, c, maxLoop)
JuliaPlaneNV_init(newXmin, newXmax, newXlen, newYmin, newYmax, newYlen, c, maxLoop) ==
    ComplexPlaneNP_init([NoObject EXCEPT !.kind = "JuliaPlaneNV", !.c = c],
                        newXmin, newXmax, newXlen, newYmin, newYmax, newYlen,
                        Closure(c, maxLoop, TRUE), maxLoop)

\* ComplexPlaneNP.zoom(self, newXmin, newXmax, newYmin, newYmax)
zoom(self, newXmin, newXmax, newYmin, newYmax) ==
    LET s1 == SetSteps([self EXCEPT !.xmin = newXmin, !.xmax = newXmax,
                                    !.ymin = newYmin, !.ymax = newYmax])
    IN  IF s1.err # "ok" THEN s1 ELSE refresh(s1.tp)

\* JuliaPlane.set_f / JuliaPlaneNV.set_f (self, c, max)
set_f(self, c, max) ==
    refresh([self EXCEPT !.c = c, !.f = Closure(c, max, self.kind = "JuliaPlaneNV")])

-----------------------------------------------------------------------------
(* Files.  A file is what its writer left on disk: the parameter row       *)
(* [xmin, xmax, xlen, ymin, ymax, ylen, c] as far as it was written, the   *)
(* content rows, and whether the text is whole, cut short or empty; and    *)
(* (history) by, what wrote it: a plane holding a DataFrame ("plane"), a   *)
(* plane whose grid had been overwritten ("list"), or another program.     *)

NoFile == [fmt |-> "none", params |-> <<>>, contents |-> <<>>, text |-> "empty", by |-> "none"]
File(fmt, params, contents, text, by) ==
    [fmt |-> fmt, params |-> params, contents |-> contents, text |-> text, by |-> by]

ParamsOf(self) ==
    <<self.xmin, self.xmax, self.xlen, self.ymin, self.ymax, self.ylen, self.c>>

\* JuliaPlane.toCSV: the two parameter rows, the marker row, then the rows
\* of the plane; a plane that is no DataFrame has no iterrows()
toCSV(self) ==
    IF self.plane.dtype = "list"
    THEN [file |-> File("csv", ParamsOf(self), <<>>, "cut", "list"), err |-> "AttributeError"]
    ELSE [file |-> File("csv", ParamsOf(self), self.plane.data, "whole", "plane"), err |-> "ok"]

\* JuliaPlane.toJSON: rows 0..xlen-1 of the matrix are collected, then the
\* whole dictionary is dumped, contents first (sort_keys); json cannot
\* encode a complex cell
toJSON(self) ==
    IF self.plane.dtype = "list"
    THEN [file |-> File("json", <<>>, <<>>, "empty", "list"), err |-> "AttributeError"]
    ELSE IF self.xlen > Len(self.plane.data)
    THEN [file |-> File("json", <<>>, <<>>, "empty", "plane"), err |-> "IndexError"]
    ELSE LET rows == [r \in 1..self.xlen |-> self.plane.data[r]] IN
         IF self.plane.dtype = "complex128" /\ \E r \in 1..self.xlen : Len(rows[r]) > 0
         THEN [file |-> File("json", <<>>, <<>>, "cut", "plane"), err |-> "TypeError"]
         ELSE [file |-> File("json", ParamsOf(self), rows, "whole", "plane"), err |-> "ok"]

\* the attribute each field of the parameter row is assigned to
ParamName == <<"xmin", "xmax", "xlen", "ymin", "ymax", "ylen", "c">>

\* float(text), int(text), complex(text) succeed on a number's text
Parses(field, i) == IF i = 7 THEN IsNum(field[1]) /\ IsNum(field[2]) ELSE IsNum(field)

\* the assignments of fromCSV, lines 165-171, from field i on: each field
\* is converted and assigned in turn; the first that fails ends the call
RECURSIVE ParseCSVRow(_, _, _)
ParseCSVRow(self, row, i) ==
    IF i > 7 THEN Ok(self)
    ELSE IF i > Len(row) THEN Raise(self, "IndexError")
    ELSE IF ~Parses(row[i], i) THEN Raise(self, "ValueError")
    ELSE ParseCSVRow([self EXCEPT ![ParamName[i]] = row[i]], row, i + 1)

\* the assignments of fromJSON, lines 222-228: the bounds are taken as
\* they are, the lengths through int(), c is creal + cimaginary*1j
RECURSIVE ParseJSONParams(_, _, _)
ParseJSONParams(self, params, i) ==
    IF i > 7 THEN Ok(self)
    ELSE IF i > Len(params) THEN Raise(self, "KeyError")
    ELSE IF i \in {3, 6} /\ ~Parses(params[i], i) THEN Raise(self, "ValueError")
    ELSE IF i = 7 /\ ~Parses(params[i], i) THEN Raise(self, "TypeError")
    ELSE ParseJSONParams([self EXCEPT ![ParamName[i]] = params[i]], params, i + 1)

\* the end of both loaders: the steps, then self.set_f( self.c ) with
\* set_f's default cap
StepsAndSetF(res) ==
    IF res.err # "ok" THEN res
    ELSE LET s1 == SetSteps(res.tp) IN
         IF s1.err # "ok" THEN s1 ELSE set_f(s1.tp, s1.tp.c, DefaultMax)

\* JuliaPlane.fromCSV
fromCSV(self, fl) ==
    IF fl.fmt = "none" THEN Raise(self, "FileNotFoundError")
    ELSE IF fl.fmt = "json"
    THEN \* no second row of eight fields in such a text
         IF fl.text = "empty" THEN Ok(self) ELSE Raise(self, "IndexError")
    ELSE StepsAndSetF(ParseCSVRow(self, fl.params, 1))

\* JuliaPlane.fromJSON
fromJSON(self, fl) ==
    IF fl.fmt = "none" THEN Raise(self, "FileNotFoundError")
    ELSE IF fl.fmt = "csv" \/ fl.text # "whole" THEN Raise(self, "ValueError")
    ELSE StepsAndSetF(ParseJSONParams(self, fl.params, 1))

\* tp.plane = [[(-1) for i in range(tp.ylen)] for j in range(tp.xlen)]
ListPlane(self) ==
    [data |-> [j \in 1..self.xlen |-> [i \in 1..self.ylen |-> <<-1, 0>>]],
     index |-> <<>>, columns |-> <<>>, dtype |-> "list"]

-----------------------------------------------------------------------------
(* Inputs of the plane operations *)

\* the lengths on which every step of the boxes below is a whole number
Lens == {1, 2, 3}
\* [xmin, xmax, ymin, ymax]
Boxes == {<<-2, 2, -2, 2>>, <<0, 2, 0, 2>>, <<2, 0, -2, 2>>, <<0, 2, 2, 2>>}
ZoomArgs == Boxes \cup {<<NotANumber, 2, -2, 2>>, <<0, 2, 0, NotANumber>>}
PlaneCs == {<<1, 0>>, <<-2, 0>>}
PlaneCaps == {2, DefaultMax}
Kinds == {"JuliaPlane", "JuliaPlaneNV"}
\* [xmin, xmax, ymin, ymax, xlen, ylen] as test_init writes them
TestArgs == {<<0, 2, -1, 1, 3, 3>>, <<0, 2, 3, 5, 3, 3>>, <<0, 2, 3, 3, 3, 3>>}

\* the inputs of the specification with files
IOLens == {2, 3}
IOBox == <<0, 2, 0, 2>>
IOC == <<1, 0>>
IOCaps == {2}
IOZoomArgs == {<<-2, 2, -2, 2>>}
IOSetFArgs == {<<<<-2, 0>>, DefaultMax>>}
\* files that some other program left on disk
ForeignFiles ==
    { File("csv", <<-2, 2, 2, -2, NotANumber, 2, <<1, 0>>>>, <<>>, "whole", "foreign"),
      File("csv", <<0, 2, 3, 0, 2, 3>>, <<>>, "whole", "foreign"),
      File("json", <<NotANumber, 2, 3, 0, 2, 3, <<1, 0>>>>, <<>>, "whole", "foreign") }

-----------------------------------------------------------------------------
(* The operations on the plane tp *)

\* how the latest call ended; for a constructor call also the class called
\* and the arguments as they stand at the call site (a constructor that
\* raises leaves no object to read them from) and the order they were
\* written in
NoArgs == [form |-> "none", kind |-> "none", v |-> <<>>]
Done(op, err) == last' = [op |-> op, err |-> err, args |-> NoArgs]
DoneInit(kind, err, form, v) ==
    last' = [op |-> "__init__", err |-> err,
             args |-> [form |-> form, kind |-> kind, v |-> v]]

\* tp = JuliaPlane(...) or tp = JuliaPlaneNV(...); tp is bound only if
\* the constructor returns
Construct(kind, box, newXlen, newYlen, c, maxLoop) ==
    LET res == IF kind = "JuliaPlaneNV"
               THEN JuliaPlaneNV_init(box[1], box[2], newXlen, box[3], box[4], newYlen, c, maxLoop)
               ELSE JuliaPlane_init(box[1], box[2], newXlen, box[3], box[4], newYlen, c, maxLoop)
    IN  /\ tp.kind = "none"
        /\ tp' = IF res.err = "ok" THEN res.tp ELSE tp
        /\ DoneInit(kind, res.err, "signature",
                    <<box[1], box[2], newXlen, box[3], box[4], newYlen>>)
        /\ UNCHANGED <<evs, made, call, file>>

\* tp = JuliaPlane( xmin, xmax, ymin, ymax, xlen, ylen ), the six values
\* written in the order of test_init (and of itest_setf1): they bind, by
\* position, to newXmin, newXmax, newXlen, newYmin, newYmax, newYlen.  c is
\* given by keyword (the default c is not on the lattice); maxLoop is the
\* default.
ConstructAsTests(kind, a, c) ==
    LET res == IF kind = "JuliaPlaneNV"
               THEN JuliaPlaneNV_init(a[1], a[2], a[3], a[4], a[5], a[6], c, DefaultMax)
               ELSE JuliaPlane_init(a[1], a[2], a[3], a[4], a[5], a[6], c, DefaultMax)
    IN  /\ tp.kind = "none"
        /\ tp' = IF res.err = "ok" THEN res.tp ELSE tp
        /\ DoneInit(kind, res.err, "tests", a)
        /\ UNCHANGED <<evs, made, call, file>>

\* tp.zoom(a[1], a[2], a[3], a[4])
Zoom(a) ==
    /\ tp.kind # "none"
    /\ LET res == zoom(tp, a[1], a[2], a[3], a[4]) IN
         tp' = res.tp /\ Done("zoom", res.err)
    /\ UNCHANGED <<evs, made, call, file>>

\* tp.set_f(c, max)
SetF(c, max) ==
    /\ tp.kind # "none"
    /\ LET res == set_f(tp, c, max) IN
         tp' = res.tp /\ Done("set_f", res.err)
    /\ UNCHANGED <<evs, made, call, file>>

\* tp.refresh()
Refresh ==
    /\ tp.kind # "none"
    /\ LET res == refresh(tp) IN
         tp' = res.tp /\ Done("refresh", res.err)
    /\ UNCHANGED <<evs, made, call, file>>

\* tp.fromCSV(filename)
FromCSV ==
    /\ tp.kind # "none"
    /\ LET res == fromCSV(tp, file) IN
         tp' = res.tp /\ Done("fromCSV", res.err)
    /\ UNCHANGED <<evs, made, call, file>>

\* tp.fromJSON(filename)
FromJSON ==
    /\ tp.kind # "none"
    /\ LET res == fromJSON(tp, file) IN
         tp' = res.tp /\ Done("fromJSON", res.err)
    /\ UNCHANGED <<evs, made, call, file>>

\* tp.toCSV(filename)
ToCSV ==
    /\ tp.kind # "none"
    /\ LET res == toCSV(tp) IN
         file' = res.file /\ Done("toCSV", res.err)
    /\ UNCHANGED <<evs, made, call, tp>>

\* tp.toJSON(filename)
ToJSON ==
    /\ tp.kind # "none"
    /\ LET res == toJSON(tp) IN
         file' = res.file /\ Done("toJSON", res.err)
    /\ UNCHANGED <<evs, made, call, tp>>

\* the stored grid is overwritten from outside (itest_refresh1)
CorruptPlane ==
    /\ tp.kind # "none"
    /\ tp' = [tp EXCEPT !.plane = ListPlane(tp)]
    /\ Done("corrupt", "ok")
    /\ UNCHANGED <<evs, made, call, file>>

\* a file from elsewhere takes the place of the file on disk
ForeignFile(fl) ==
    /\ file' = fl
    /\ Done("foreign", "ok")
    /\ UNCHANGED <<evs, made, call, tp>>

-----------------------------------------------------------------------------
(* Specifications *)

Init ==
    /\ evs = [name \in Names |-> Unbound]
    /\ made = [name \in Names |-> Unbound]
    /\ call = NoCall
    /\ tp = NoObject
    /\ file = NoFile
    /\ last = [op |-> "none", err |-> "ok", args |-> NoArgs]

\* the plane and its operations, without files
Next ==
    \/ \E kind \in Kinds, box \in Boxes, xl \in Lens, yl \in Lens, c \in PlaneCs, m \in PlaneCaps :
          Construct(kind, box, xl, yl, c, m)
    \/ \E kind \in Kinds, a \in TestArgs, c \in PlaneCs : ConstructAsTests(kind, a, c)
    \/ \E a \in ZoomArgs : Zoom(a)
    \/ \E c \in PlaneCs, m \in PlaneCaps : SetF(c, m)
    \/ Refresh
    \/ CorruptPlane

Spec == Init /\ [][Next]_vars

\* the plane, its operations and its files, on fewer inputs
NextIO ==
    \/ \E kind \in Kinds, xl \in IOLens, yl \in IOLens, m \in IOCaps :
          Construct(kind, IOBox, xl, yl, IOC, m)
    \/ \E a \in IOZoomArgs : Zoom(a)
    \/ \E a \in IOSetFArgs : SetF(a[1], a[2])
    \/ Refresh
    \/ CorruptPlane
    \/ ToCSV
    \/ ToJSON
    \/ FromCSV
    \/ FromJSON
    \/ \E fl \in ForeignFiles : ForeignFile(fl)

SpecIO == Init /\ [][NextIO]_vars

\* the evaluators alone
NextJulia ==
    \/ \E name \in Names, c \in Cs, m \in Caps : julia(name, c, m)
    \/ \E name \in Names, c \in Cs, m \in Caps : juliaNV(name, c, m)
    \/ \E name \in Names, z \in Zs : Call(name, z)

SpecJulia == Init /\ [][NextJulia]_vars

-----------------------------------------------------------------------------
(* Claims about the evaluators, under SpecJulia *)

Called == call.ev # "none"
\* the arguments the called evaluator was created with
CalledC == made[call.ev].c
CalledMax == made[call.ev].max

\* z and its first k iterates under z <- z^2 + c all have magnitude <= 2
RECURSIVE Stays(_, _, _)
Stays(z, c, k) == AbsLe2(z) /\ (k = 0 \/ Stays(SqrPlus(z, c), c, k - 1))

\* the number of applications after which the orbit of z first has
\* magnitude > 2, looking at up to limit applications; 0 if there is none
RECURSIVE EscapeFrom(_, _, _, _)
EscapeFrom(z, c, k, limit) ==
    IF ~AbsLe2(z) THEN k
    ELSE IF k = limit THEN 0
    ELSE EscapeFrom(SqrPlus(z, c), c, k + 1, limit)
FirstEscape(z, c, limit) == EscapeFrom(z, c, 0, limit)

\* C1: an evaluator called on a z0 of magnitude > 2 returns 1, and has not
\* applied the recurrence.
C1_TooLargeReturnsOne ==
    (Called /\ ~AbsLe2(call.z)) => (call.n = 1 /\ call.apps = 0 /\ call.last = call.z)

C1_Witness == Called /\ ~AbsLe2(call.z) /\ call.n = 1

\* C2: an evaluator with cap max >= 1 called on a z0 of magnitude <= 2
\* whose first max iterates all keep magnitude <= 2 returns 0.
C2_NeverEscapesReturnsZero ==
    (Called /\ CalledMax >= 1 /\ Stays(call.z, CalledC, CalledMax)) => call.n = 0

C2_Witness ==
    Called /\ CalledMax >= 1 /\ Stays(call.z, CalledC, CalledMax) /\ call.n = 0
    /\ call.apps = CalledMax + 1

\* C3 as stated: a z0 of magnitude <= 2 whose orbit first has magnitude > 2
\* after exactly n applications, 1 <= n <= max, gets n.
C3_Original ==
    (Called /\ AbsLe2(call.z) /\ FirstEscape(call.z, CalledC, CalledMax) >= 1)
        => call.n = FirstEscape(call.z, CalledC, CalledMax)

\* C3 as amended: such a z0 gets n - 1, the number of applications before
\* the one that left the disc; a start that escapes at its first
\* application gets 0, as a start that reaches the cap does.
C3_EscapeAfterNReturnsNMinusOne ==
    (Called /\ AbsLe2(call.z) /\ FirstEscape(call.z, CalledC, CalledMax) >= 1)
        => /\ call.n = FirstEscape(call.z, CalledC, CalledMax) - 1
           /\ call.apps = FirstEscape(call.z, CalledC, CalledMax)

C3_Witness ==
    Called /\ AbsLe2(call.z) /\ FirstEscape(call.z, CalledC, CalledMax) = 2 /\ call.n = 1

\* C4: what an evaluator returns for z depends only on z and on the c and
\* max it was created with, whatever other evaluators are created or called
\* in between; and a call that repeats the latest call returns what it did.
C4_ResultOfOwnArguments == Called => call.n = Apply(made[call.ev], call.z).n
C4_SameCallSameResult == (Called /\ call'.ev = call.ev /\ call'.z = call.z) => call'.n = call.n
C4_Independent == [](C4_ResultOfOwnArguments) /\ [][C4_SameCallSameResult]_vars

C4_Witness ==
    /\ evs["f1"].bound /\ evs["f2"].bound
    /\ evs["f1"].c # evs["f2"].c /\ evs["f1"].max # evs["f2"].max
    /\ call.ev = "f1"
    /\ call.n # Apply(made["f2"], call.z).n

-----------------------------------------------------------------------------
(* Claims about the plane *)

Exists == tp.kind # "none"
Numeric == IsNum(tp.xmin) /\ IsNum(tp.xmax) /\ IsNum(tp.ymin) /\ IsNum(tp.ymax)
Succeeded(ops) == Exists /\ last.op \in ops /\ last.err = "ok"

\* what the escape-time evaluator in use returns at row i, column j (from
\* 0) of the lattice: x = xmin + j*xstep, y = ymax - i*ystep
EscapeTimeAt(i, j) ==
    Apply(tp.f, <<tp.xmin + j * tp.xstep, tp.ymax - i * tp.ystep>>).n

\* C5: after construction, zoom, set_f or refresh, cell (i, j) of the
\* stored grid is the evaluator's result at (xmin + j*xstep) +
\* (ymax - i*ystep)*i for the current c and cap, for every row i and
\* column j.
C5_GridHoldsEscapeTimes ==
    Succeeded({"__init__", "zoom", "set_f", "refresh"}) =>
        /\ Len(tp.plane.data) = tp.ylen
        /\ \A i \in 0..(tp.ylen - 1) :
              /\ Len(tp.plane.data[i + 1]) = tp.xlen
              /\ \A j \in 0..(tp.xlen - 1) :
                    tp.plane.data[i + 1][j + 1] = <<EscapeTimeAt(i, j), 0>>

\* C6: no plane is ever left with xmax <= xmin, ymax <= ymin, xlen < 2 or
\* ylen < 2: zoom and construction reject such bounds and lengths.
C6_InvalidConfigurationRejected ==
    Exists =>
        /\ (IsNum(tp.xmin) /\ IsNum(tp.xmax)) => tp.xmax > tp.xmin
        /\ (IsNum(tp.ymin) /\ IsNum(tp.ymax)) => tp.ymax > tp.ymin
        /\ tp.xlen >= 2
        /\ tp.ylen >= 2

\* C7: a zoom call that raises leaves every attribute of the plane, the
\* stored grid included, as it was before the call.
C7_FailedZoomChangesNothing ==
    [][(last'.op = "zoom" /\ last'.err # "ok") => tp' = tp]_vars

\* a plane newly constructed with the bounds, lengths, c and cap of tp
Fresh ==
    IF tp.kind = "JuliaPlaneNV"
    THEN JuliaPlaneNV_init(tp.xmin, tp.xmax, tp.xlen, tp.ymin, tp.ymax, tp.ylen, tp.c, tp.f.max)
    ELSE JuliaPlane_init(tp.xmin, tp.xmax, tp.xlen, tp.ymin, tp.ymax, tp.ylen, tp.c, tp.f.max)

Configuration(self) ==
    <<self.xmin, self.xmax, self.ymin, self.ymax, self.xlen, self.ylen,
      self.xstep, self.ystep, self.c, self.f, self.max>>

\* C8: after refresh() the stored grid, whatever it held before, is the
\* grid of a newly constructed plane with the same bounds, lengths, c and
\* cap; refresh() changes no configuration field, and a second refresh()
\* changes nothing.
C8_RefreshRestores ==
    Succeeded({"refresh"}) => (Fresh.err = "ok" /\ tp.plane.data = Fresh.tp.plane.data)
C8_RefreshFrame ==
    (last'.op = "refresh" /\ last' # last) => Configuration(tp') = Configuration(tp)
C8_RefreshTwice ==
    (last'.op = "refresh" /\ last.op = "refresh" /\ last.err = "ok") => tp' = tp
C8_RefreshIdempotent ==
    [](C8_RefreshRestores) /\ [][C8_RefreshFrame /\ C8_RefreshTwice]_vars

\* C9: a file written by toCSV or toJSON from a plane, loaded by fromCSV
\* or fromJSON, gives a plane with the grid the writer had, cell by cell,
\* and the writer's bounds, lengths and c.  (The writer's cap is not in
\* the file; it shows in the cells of a JuliaPlaneNV.)
C9_RoundTrip ==
    (Exists /\ file.by = "plane"
        /\ ((last.op = "fromCSV" /\ file.fmt = "csv") \/ (last.op = "fromJSON" /\ file.fmt = "json")))
    => /\ last.err = "ok"
       /\ ParamsOf(tp) = file.params
       /\ tp.plane.data = file.contents

\* C10: in every state, xstep = (xmax - xmin)/(xlen - 1), ystep =
\* (ymax - ymin)/(ylen - 1), and the stored grid is the grid refresh()
\* would recompute.  (A grid overwritten from outside is not the plane's
\* doing: such states are left out.)
C10_NoStaleState ==
    (Exists /\ tp.plane.dtype # "list") =>
        LET xs == StepOf(tp.xmin, tp.xmax, tp.xlen)
            ys == StepOf(tp.ymin, tp.ymax, tp.ylen)
            again == refresh(tp)
        IN  /\ xs.err = "ok" /\ tp.xstep = xs.v
            /\ ys.err = "ok" /\ tp.ystep = ys.v
            /\ again.err = "ok" /\ again.tp.plane = tp.plane

\* C11: after set_f(c, max) the stored c and the stored cap are the c and
\* the cap of the evaluator now in use, the grid is the one that evaluator
\* generates, and set_f leaves bounds, lengths and steps as they were.
C11_EscapeOfEvaluator ==
    Succeeded({"set_f"}) =>
        /\ tp.c = tp.f.c
        /\ tp.max = tp.f.max
        /\ tp.plane = refresh(tp).tp.plane
C11_SetFFrame ==
    (last'.op = "set_f" /\ last' # last) =>
        /\ <<tp'.xmin, tp'.xmax, tp'.ymin, tp'.ymax>> = <<tp.xmin, tp.xmax, tp.ymin, tp.ymax>>
        /\ <<tp'.xlen, tp'.ylen, tp'.xstep, tp'.ystep>> = <<tp.xlen, tp.ylen, tp.xstep, tp.ystep>>
C11_SetFReplacesWholesale == [](C11_EscapeOfEvaluator) /\ [][C11_SetFFrame]_vars

\* the parameter record of the file is incomplete, or one of its fields is
\* not a number
Rejected(fl) ==
    \/ Len(fl.params) < 7
    \/ \E i \in 1..Len(fl.params) : i <= 7 /\ ~Parses(fl.params[i], i)

\* C12: a fromCSV or fromJSON call that raises on a file whose parameter
\* record is incomplete or has a malformed field leaves bounds, lengths,
\* c, steps and grid as they were before the call.
C12_LoadAllOrNothing ==
    [][(last'.op \in {"fromCSV", "fromJSON"} /\ last'.err # "ok" /\ Rejected(file))
          => tp' = tp]_vars

\* C13: JuliaPlane(xmin, xmax, ymin, ymax, xlen, ylen), six positional
\* arguments in the order the tests write them, yields a plane whose xmin,
\* xmax, ymin, ymax, xlen and ylen are the arguments of those names.
C13_ConstructorStoresArguments ==
    (last.op = "__init__" /\ last.args.form = "tests") =>
        /\ last.err = "ok"
        /\ <<tp.xmin, tp.xmax, tp.ymin, tp.ymax, tp.xlen, tp.ylen>> = last.args.v

\* the lengths and bounds a generation works from: those handed to the
\* constructor (positions 3 and 6 are newXlen and newYlen), or those of
\* the plane that refresh() is called on
GenXlen == IF last.op = "__init__" THEN last.args.v[3] ELSE tp.xlen
GenYlen == IF last.op = "__init__" THEN last.args.v[6] ELSE tp.ylen
GenNumeric ==
    IF last.op = "__init__"
    THEN \A i \in {1, 2, 4, 5} : IsNum(last.args.v[i])
    ELSE Numeric

\* C14: with xlen >= 2 and ylen >= 2, equal or not, construction and
\* refresh of a JuliaPlane or JuliaPlaneNV end without an IndexError and
\* leave a grid of ylen rows and xlen columns, each cell of which the
\* sweep has written.
C14_GridIsYlenByXlen ==
    (last.op \in {"__init__", "refresh"} /\ GenXlen >= 2 /\ GenYlen >= 2 /\ GenNumeric) =>
        /\ last.err = "ok"
        /\ Len(tp.plane.data) = GenYlen
        /\ \A r \in 1..Len(tp.plane.data) :
              /\ Len(tp.plane.data[r]) = GenXlen
              /\ tp.kind = "JuliaPlaneNV" =>
                    \A k \in 1..Len(tp.plane.data[r]) : SweepWrites(tp, r, k)

=============================================================================
